---- MODULE Spec2Model ----
(***************************************************************************)
(* The Snowflake import plugin: setupPlugin, teardownPlugin and the        *)
(* self-rescheduling job importAndIngestEvents (index.ts), with the        *)
(* durable storage, the cache counter, the job queue and the single        *)
(* pooled connection they act on.                                          *)
(*                                                                         *)
(* A job run is split at its await points: cache.get ("offset"),           *)
(* pool.acquire ("acquire"), the query ("execute"), cache.incr ("incr")    *)
(* and the final runIn ("sched").  The job queue hands over pending        *)
(* invocations in any order: runIn(delay) is a lower bound on the start    *)
(* time, and the delay is kept as data of the pending invocation.          *)
(*                                                                         *)
(* The cache value of import_offset is a number of batches that setup      *)
(* computes by a division (offset / batchSize); it is kept here multiplied *)
(* by batchSize, so that a fractional batch count stays an integer.        *)
(***************************************************************************)
EXTENDS Integers, Sequences, FiniteSets, Bags, TLC

\* ---------------------------------------------------------------- bounds
\* rows the source table can grow to
MaxRows == 2
\* invocations being run at the same time
MaxRunning == 1
\* scheduled plus running invocations beyond which no fetch fails and no setup succeeds
MaxJobs == 2
\* cache value (in rows) up to which cache.incr is followed
MaxOffset == 4
\* retriesPerformedSoFar up to which a fetch fails, in the retry chain
MaxChainRetries == 15

\* members of the JSON text in the properties column
MaxProperties == 2
\* columns of a row given to the JSON Map transform
MaxColumns == 3
\* members of the attached JSON mapping document
MaxMapMembers == 2

\* characters of config.table and of config.orderBy
MaxTextLen == 2

\* derived limits
MaxRetries == MaxJobs - 1
ChainJobs == MaxChainRetries + 1
ChainOffset == 2 * (MaxChainRetries + 1)
ScenarioJobs == MaxJobs + 1
ScenarioOffset == MaxOffset + 2

\* ------------------------------------------------------------- constants
CONTINUOUS == "Import continuously"
HISTORICAL == "Only import historical data"
MaxRetriesPerBatch == 15
\* undefined / null / no such key
Absent == -1

BatchSizes == {2}
Frequencies == {0, 2}
InitRowCounts == {0, 1}
BadRowChoices == {{}, {1}}

Configs ==
  [importMechanism : {CONTINUOUS, HISTORICAL},
   batchSize : BatchSizes,
   frequency : Frequencies,
   hasRequired : BOOLEAN]

VARIABLES
  config,          \* the plugin configuration (fixed for a behaviour)
  tableRows,       \* number of rows of the source table
  badRows,         \* indices of the rows whose transform throws
  storage,         \* durable store: import_offset, total_rows_snapshot
  cache,           \* cache key import_offset, times batchSize (Absent: no key)
  global,          \* global.initialOffset, global.totalRows
  phase,           \* "down", "up" (setup done), "draining" (teardown wrote)
  pending,         \* bag of scheduled invocations [payload, delay]
  running,         \* bag of the invocations being run
  emittedRows,     \* history: row indices passed to posthog.capture
  lastSucc,        \* history: offset of the last successful fetch since setup
  terminatedSeen,  \* history: a run since setup saw offset > totalRows
  persisted,       \* history: the value teardown wrote last
  fetchLog,        \* history: outcomes of the first three fetch attempts
  retryDelays,     \* history: delays of the retries scheduled by them
  firstFailOffset, \* history: offset of the first of the latest failures
  emittedAgain,    \* history: row indices passed to posthog.capture more than once
  transformationName, \* config.transformationName of the transform being applied
  row,             \* the row given to the transform: its entries, in column order
  attachments,     \* the text of the attached JSON document the transform reads
  eventToIngest,   \* what the transform returned
  captured,        \* history: the events passed to posthog.capture, in order
  query            \* the batch query: configured identifiers, text and binds

progVars == <<config, tableRows, badRows, storage, cache, global, phase, pending, running>>
histVars == <<emittedRows, lastSucc, terminatedSeen, persisted>>
logVars == <<fetchLog, retryDelays, firstFailOffset>>
transformVars == <<transformationName, row, attachments, eventToIngest>>
otherVars == <<emittedAgain, transformVars, captured, query>>
vars == <<progVars, histVars, logVars, otherVars>>

\* --------------------------------------------------------------- helpers
\* JavaScript truthiness of a number that may be undefined or null.
Truthy(v) == v # Absent /\ v # 0

FreshPayload == [offset |-> Absent, retriesPerformedSoFar |-> 0]

Invocation(payload, delay) == [payload |-> payload, delay |-> delay]

\* a run of importAndIngestEvents: where it is, its payload, its offset and
\* the number of runIn calls it has made
Run(pc, payload, offset, scheduled) ==
  [pc |-> pc, payload |-> payload, offset |-> offset, scheduled |-> scheduled]

One(x) == SetToBag({x})

\* storage.get(key, dflt) and cache.get(key, dflt)
GetOr(v, dflt) == IF v = Absent THEN dflt ELSE v

\* global.initialOffset + redisIncrementedOffset * batchSize
EffectiveOffset == global.initialOffset + GetOr(cache, 0)

\* SELECT ... ORDER BY ... LIMIT batchSize OFFSET offset
QueryRows(offset) ==
  {i \in 0..(tableRows - 1) : offset =< i /\ i < offset + config.batchSize}

\* mutant: the delay grows linearly
NextRetrySecondsLinear(n) == 2 * n * 3

\* 2 ** retriesPerformedSoFar * 3
NextRetrySeconds(n) == (2 ^ n) * 3

\* mutant: the import stops one batch later
HistoricalDoneBatchLater(offset) ==
  config.importMechanism = HISTORICAL /\ offset > global.totalRows + config.batchSize

\* config.importMechanism === HISTORICAL && offset > global.totalRows
HistoricalDone(offset) ==
  config.importMechanism = HISTORICAL /\ offset > global.totalRows

\* payload.offset && payload.retriesPerformedSoFar >= 15
Abandoned(payload) ==
  Truthy(payload.offset) /\ payload.retriesPerformedSoFar >= MaxRetriesPerBatch

Runs == BagToSet(running)
JobCount == BagCardinality(pending) + BagCardinality(running)
Executing == {r \in Runs : r.pc = "execute"}

\* ------------------------------------------------------------------ Init
\* no query has been built
NoSqlText == [from |-> <<>>, orderBy |-> <<>>, limit |-> 0, offset |-> ""]
NoQuery ==
  [table |-> <<>>, orderBy |-> <<>>, offset |-> 0, built |-> FALSE,
   sqlText |-> NoSqlText, binds |-> <<>>]

\* no transform has been applied
NoEvent == [result |-> "none", event |-> "", properties |-> [k \in {} |-> ""]]

PluginInit(configs) ==
  /\ config \in configs
  /\ tableRows \in InitRowCounts
  /\ badRows \in BadRowChoices
  /\ storage = [import_offset |-> Absent, total_rows_snapshot |-> Absent]
  /\ cache = Absent
  /\ global = [initialOffset |-> Absent, totalRows |-> Absent]
  /\ phase = "down"
  /\ pending = EmptyBag
  /\ running = EmptyBag
  /\ emittedRows = {}
  /\ lastSucc = Absent
  /\ terminatedSeen = FALSE
  /\ persisted = Absent
  /\ fetchLog = <<>>
  /\ retryDelays = <<>>
  /\ firstFailOffset = Absent
  /\ emittedAgain = {}
  /\ captured = <<>>

InitWith(configs) ==
  /\ PluginInit(configs)
  /\ transformationName = "default"
  /\ row = <<>>
  /\ attachments = <<>>
  /\ eventToIngest = NoEvent
  /\ query = NoQuery

Init == InitWith(Configs)

\* ----------------------------------------------------------- setupPlugin
\* setup runs when the plugin is not loaded; a run whose acquire was refused
\* by the drained pool has gone on by then
SetupEnabled ==
  /\ phase = "down"
  /\ \A r \in Runs : r.pc # "acquire"

\* lines 198-203: a required config option is missing
SetupMissingOption ==
  /\ SetupEnabled
  /\ ~config.hasRequired
  /\ UNCHANGED vars

\* lines 212-220: the COUNT query fails
SetupCountFails ==
  /\ SetupEnabled
  /\ config.hasRequired
  /\ UNCHANGED vars

\* the value setup leaves in global.totalRows, given the COUNT result
SetupTotalRows(rowCount) ==
  IF config.importMechanism = HISTORICAL
  THEN (IF Truthy(storage.total_rows_snapshot) THEN storage.total_rows_snapshot ELSE rowCount)
  ELSE rowCount

\* the durable snapshot after setup, given the COUNT result
SetupSnapshot(rowCount) ==
  IF config.importMechanism = HISTORICAL /\ ~Truthy(storage.total_rows_snapshot)
  THEN rowCount
  ELSE storage.total_rows_snapshot

\* mutant: the checkpoint is loaded as a number of batches
LoadInitialOffsetInBatches == GetOr(storage.import_offset, 0) \div config.batchSize

\* const offset = await storage.get(REDIS_OFFSET_KEY, 0)
LoadInitialOffset == GetOr(storage.import_offset, 0)

\* cache.set(REDIS_OFFSET_KEY, Number(offset) / Number(config.batchSize)),
\* kept times batchSize
SetupCacheValue(offset) == offset

\* mutant: every frequency is taken
AnyFrequency == TRUE

\* lines 244-248: Number(config.frequency) is a number other than 0
ValidFrequency == Truthy(config.frequency)

\* lines 224-250: the COUNT query succeeded
SetupRun ==
  /\ SetupEnabled
  /\ config.hasRequired
  /\ storage' = [storage EXCEPT !.total_rows_snapshot = SetupSnapshot(tableRows)]
  /\ global' = [initialOffset |-> LoadInitialOffset, totalRows |-> SetupTotalRows(tableRows)]
  /\ cache' = SetupCacheValue(LoadInitialOffset)
  /\ IF ~ValidFrequency
     THEN UNCHANGED <<phase, pending>>
     ELSE /\ JobCount < MaxJobs
          /\ phase' = "up"
          /\ pending' = pending (+) One(Invocation(FreshPayload, config.frequency))
  /\ lastSucc' = Absent
  /\ terminatedSeen' = FALSE
  /\ UNCHANGED <<config, tableRows, badRows, running, emittedRows, persisted, logVars, otherVars>>

\* -------------------------------------------------------- teardownPlugin
\* workerOffset > global.totalRows ? global.totalRows : workerOffset
OffsetToStore ==
  LET workerOffset == GetOr(cache, 0)
  IN IF workerOffset > global.totalRows THEN global.totalRows ELSE workerOffset

\* lines 254-257: the durable write
TeardownPersist ==
  /\ phase = "up"
  /\ storage' = [storage EXCEPT !.import_offset = OffsetToStore]
  /\ persisted' = OffsetToStore
  /\ phase' = "draining"
  /\ UNCHANGED <<config, tableRows, badRows, cache, global, pending, running,
                 emittedRows, lastSucc, terminatedSeen, logVars, otherVars>>

\* line 257: storage.set rejects; teardown throws there and line 258 is not
\* reached
TeardownWriteFails ==
  /\ phase = "up"
  /\ UNCHANGED vars

\* mutant: the pool is released whether or not the checkpoint was written
CheckpointWrittenOrNot == phase \in {"up", "draining"}

\* line 258 is reached: the await of storage.set (line 257) has resolved
CheckpointWritten == phase = "draining"

\* line 258: drain waits for the borrowed connection, then the pool is cleared
TeardownClear ==
  /\ CheckpointWritten
  /\ Executing = {}
  /\ phase' = "down"
  /\ UNCHANGED <<config, tableRows, badRows, storage, cache, global, pending, running,
                 histVars, logVars, otherVars>>

\* ------------------------------------------------- importAndIngestEvents
\* lines 286-302, up to the first await: the job queue starts an invocation
StartRunWith(inv, maxRunning) ==
  LET p == inv.payload
  IN /\ phase = "up"
     /\ BagIn(inv, pending)
     /\ BagCardinality(running) < maxRunning
     /\ pending' = pending (-) One(inv)
     /\ IF Abandoned(p)
        THEN UNCHANGED <<running, terminatedSeen>>
        ELSE IF Truthy(p.offset)
        THEN IF HistoricalDone(p.offset)
             THEN /\ terminatedSeen' = TRUE
                  /\ UNCHANGED running
             ELSE /\ running' = running (+) One(Run("acquire", p, p.offset, 0))
                  /\ UNCHANGED terminatedSeen
        ELSE /\ running' = running (+) One(Run("offset", p, Absent, 0))
             /\ UNCHANGED terminatedSeen
     /\ UNCHANGED <<config, tableRows, badRows, storage, cache, global, phase,
                    emittedRows, lastSucc, persisted, logVars, otherVars>>

StartRunOf(inv) == StartRunWith(inv, MaxRunning)

StartRun == \E inv \in BagToSet(pending) : StartRunOf(inv)

\* lines 300-307: cache.get resolved, the offset is computed, historical check
ReadOffsetOf(r) ==
  LET offset == EffectiveOffset
  IN /\ BagIn(r, running)
     /\ r.pc = "offset"
     /\ IF HistoricalDone(offset)
        THEN /\ running' = running (-) One(r)
             /\ terminatedSeen' = TRUE
        ELSE /\ running' = (running (-) One(r)) (+) One([r EXCEPT !.pc = "acquire", !.offset = offset])
             /\ UNCHANGED terminatedSeen
     /\ UNCHANGED <<config, tableRows, badRows, storage, cache, global, phase, pending,
                    emittedRows, lastSucc, persisted, logVars, otherVars>>

ReadOffset == \E r \in Runs : ReadOffsetOf(r)

\* mutant: the pool lends a connection whenever it is asked
ConnectionAlwaysFree == TRUE

\* lines 144-149: max 1; the one connection is not borrowed
ConnectionFree == Executing = {}

\* line 154: pool.acquire resolves, the one connection is free
AcquireOf(r) ==
  /\ BagIn(r, running)
  /\ r.pc = "acquire"
  /\ phase # "down"
  /\ ConnectionFree
  /\ running' = (running (-) One(r)) (+) One([r EXCEPT !.pc = "execute"])
  /\ UNCHANGED <<config, tableRows, badRows, storage, cache, global, phase, pending,
                 histVars, logVars, otherVars>>

Acquire == \E r \in Runs : AcquireOf(r)

\* lines 320-333: the retry is scheduled, and the run goes on
FailedFetch(r, maxJobs, maxRetries) ==
  LET p == r.payload
      retry == [p EXCEPT !.retriesPerformedSoFar = p.retriesPerformedSoFar + 1]
  IN /\ JobCount < maxJobs
     /\ p.retriesPerformedSoFar < maxRetries
     /\ pending' = pending (+) One(Invocation(retry, NextRetrySeconds(p.retriesPerformedSoFar)))
     /\ running' = (running (-) One(r)) (+) One([r EXCEPT !.pc = "incr", !.scheduled = r.scheduled + 1])
     /\ UNCHANGED <<config, tableRows, badRows, storage, cache, global, phase, histVars>>

\* line 154: pool.acquire rejects, the pool was drained by teardown
AcquireRejectOf(r) ==
  /\ BagIn(r, running)
  /\ r.pc = "acquire"
  /\ phase = "down"
  /\ FailedFetch(r, MaxJobs, MaxRetries)
  /\ UNCHANGED <<logVars, otherVars>>

AcquireReject == \E r \in Runs : AcquireRejectOf(r)

\* lines 160-164: the query fails; the connection is released
ExecuteFailOf(r, maxJobs, maxRetries) ==
  /\ BagIn(r, running)
  /\ r.pc = "execute"
  /\ FailedFetch(r, maxJobs, maxRetries)

ExecuteFail == \E r \in Runs : ExecuteFailOf(r, MaxJobs, MaxRetries) /\ UNCHANGED <<logVars, otherVars>>

\* mutant: no transform throws
TransformNeverThrows(rows) == FALSE

\* line 339: the transform of one of the rows throws
TransformThrows(rows) == rows \cap badRows # {}

\* lines 335-352: the query succeeds; rows are transformed, then captured
ExecuteOkOf(r) ==
  LET rows == QueryRows(r.offset)
  IN /\ BagIn(r, running)
     /\ r.pc = "execute"
     /\ lastSucc' = r.offset
     /\ IF TransformThrows(rows)
        THEN /\ running' = running (-) One(r)
             /\ UNCHANGED emittedRows
        ELSE /\ emittedRows' = emittedRows \cup rows
             /\ running' = (running (-) One(r)) (+) One([r EXCEPT !.pc = "incr"])
     /\ UNCHANGED <<config, tableRows, badRows, storage, cache, global, phase, pending,
                    terminatedSeen, persisted>>

ExecuteOk == \E r \in Runs : ExecuteOkOf(r) /\ UNCHANGED <<logVars, otherVars>>

\* line 354: cache.incr; a counter that is not a whole number may be refused
IncrOf(r, maxOffset) ==
  /\ BagIn(r, running)
  /\ r.pc = "incr"
  /\ GetOr(cache, 0) + config.batchSize =< maxOffset
  /\ \/ /\ cache' = GetOr(cache, 0) + config.batchSize
        /\ running' = (running (-) One(r)) (+) One([r EXCEPT !.pc = "sched"])
     \/ /\ GetOr(cache, 0) % config.batchSize # 0
        /\ running' = running (-) One(r)
        /\ UNCHANGED cache
  /\ UNCHANGED <<config, tableRows, badRows, storage, global, phase, pending,
                 histVars, logVars, otherVars>>

Incr == \E r \in Runs : IncrOf(r, MaxOffset)

\* lines 356-360: the successor is scheduled and the run ends
ScheduleOf(r) ==
  /\ BagIn(r, running)
  /\ r.pc = "sched"
  /\ pending' = pending (+) One(Invocation(FreshPayload, config.frequency))
  /\ running' = running (-) One(r)
  /\ UNCHANGED <<config, tableRows, badRows, storage, cache, global, phase,
                 histVars, logVars, otherVars>>

Schedule == \E r \in Runs : ScheduleOf(r)

\* the source table grows
GrowTable ==
  /\ tableRows < MaxRows
  /\ tableRows' = tableRows + 1
  /\ UNCHANGED <<config, badRows, storage, cache, global, phase, pending, running,
                 histVars, logVars, otherVars>>

\* --------------------------------------------------------- specification
Next ==
  \/ SetupMissingOption
  \/ SetupCountFails
  \/ SetupRun
  \/ TeardownPersist
  \/ TeardownWriteFails
  \/ TeardownClear
  \/ StartRun
  \/ ReadOffset
  \/ Acquire
  \/ AcquireReject
  \/ ExecuteFail
  \/ ExecuteOk
  \/ Incr
  \/ Schedule
  \/ GrowTable

Spec == Init /\ [][Next]_vars

\* ------------------------------------------------------- the retry chain
\* One plugin start in continuous mode with a polling interval of one day,
\* longer than every retry delay up to 3 * 2^14 seconds: the invocation with
\* the most retries is the next one due, and one invocation is run at a time.
ChainInit ==
  /\ InitWith({[importMechanism |-> CONTINUOUS, batchSize |-> 2, frequency |-> 86400,
                hasRequired |-> TRUE]})
  /\ badRows = {}

ChainStartRun ==
  /\ running = EmptyBag
  /\ \E inv \in BagToSet(pending) :
       /\ \A other \in BagToSet(pending) :
            other.payload.retriesPerformedSoFar =< inv.payload.retriesPerformedSoFar
       /\ StartRunOf(inv)

ChainExecuteFail ==
  \E r \in Runs :
    /\ ExecuteFailOf(r, ChainJobs, MaxChainRetries)
    /\ firstFailOffset' = IF firstFailOffset = Absent THEN r.offset ELSE firstFailOffset
    /\ UNCHANGED <<fetchLog, retryDelays, otherVars>>

ChainExecuteOk ==
  \E r \in Runs :
    /\ ExecuteOkOf(r)
    /\ firstFailOffset' = Absent
    /\ UNCHANGED <<fetchLog, retryDelays, otherVars>>

ChainIncr == \E r \in Runs : IncrOf(r, ChainOffset)

ChainNext ==
  \/ SetupRun
  \/ ChainStartRun
  \/ ReadOffset
  \/ Acquire
  \/ ChainExecuteFail
  \/ ChainExecuteOk
  \/ ChainIncr
  \/ Schedule

RetrySpec == ChainInit /\ [][ChainNext]_vars

\* ------------------------------------------- the first three fetch attempts
\* One plugin start; the outcomes of the first three fetch attempts and the
\* delays of the retries they schedule are recorded.
ScenarioInit ==
  /\ Init
  /\ config.hasRequired
  /\ config.frequency # 0

ScenarioExecuteFail ==
  \E r \in Runs :
    /\ ExecuteFailOf(r, ScenarioJobs, ScenarioJobs)
    /\ fetchLog' = IF Len(fetchLog) < 3 THEN Append(fetchLog, "fail") ELSE fetchLog
    /\ retryDelays' = IF Len(fetchLog) < 3
                      THEN Append(retryDelays, NextRetrySeconds(r.payload.retriesPerformedSoFar))
                      ELSE retryDelays
    /\ UNCHANGED <<firstFailOffset, otherVars>>

ScenarioExecuteOk ==
  \E r \in Runs :
    /\ ExecuteOkOf(r)
    /\ fetchLog' = IF Len(fetchLog) < 3 THEN Append(fetchLog, "ok") ELSE fetchLog
    /\ UNCHANGED <<retryDelays, firstFailOffset, otherVars>>

ScenarioIncr == \E r \in Runs : IncrOf(r, ScenarioOffset)

ScenarioNext ==
  \/ SetupRun
  \/ StartRun
  \/ ReadOffset
  \/ Acquire
  \/ ScenarioExecuteFail
  \/ ScenarioExecuteOk
  \/ ScenarioIncr
  \/ Schedule
  \/ GrowTable

ScenarioSpec == ScenarioInit /\ [][ScenarioNext]_vars

\* ------------------------------------------------------- the transforms
\* A JSON text of a flat object is the sequence of its members <<key, value>>
\* in text order (a key may be repeated), or a text that does not parse.
SeqsUpTo(S, n) == UNION {[1..k -> S] : k \in 0..n}

JsonText(keys, values, n) ==
  {[valid |-> TRUE, members |-> ms] : ms \in SeqsUpTo(keys \X values, n)}
    \cup {[valid |-> FALSE, members |-> <<>>]}

\* JSON.parse of the text of a flat object: of a repeated key the last member
\* is kept
JsonParse(members) ==
  [k \in {members[i][1] : i \in DOMAIN members} |->
     LET last == CHOOSE i \in DOMAIN members :
                   /\ members[i][1] = k
                   /\ \A j \in DOMAIN members : members[j][1] = k => j =< i
     IN members[last][2]]

Threw == [result |-> "threw", event |-> "", properties |-> [k \in {} |-> ""]]

\* mutant: the source tag is written before the parsed properties
DefaultTransformSourceFirst(r) ==
  [result |-> "returned",
   event |-> r.event,
   properties |-> JsonParse(r.properties.members)
                    @@ ("source" :> "snowflake_import")
                    @@ ("timestamp" :> r.timestamp @@ "distinct_id" :> r.distinct_id)]

\* lines 394-406: { timestamp, distinct_id, ...JSON.parse(properties), source }
\* (in an object literal a later key replaces an earlier one)
DefaultTransform(r) ==
  [result |-> "returned",
   event |-> r.event,
   properties |-> ("source" :> "snowflake_import")
                    @@ JsonParse(r.properties.members)
                    @@ ("timestamp" :> r.timestamp @@ "distinct_id" :> r.distinct_id)]

\* rowToEventMap[colName], "" standing for undefined
MapLookup(rowToEventMap, colName) ==
  IF colName \in DOMAIN rowToEventMap THEN rowToEventMap[colName] ELSE ""

\* mutant: a column the mapping does not name is kept under its own name
JSONMapStepKeepsUnmapped(rowToEventMap, entry, acc) ==
  LET field == MapLookup(rowToEventMap, entry[1])
  IN IF field = "" THEN [acc EXCEPT !.properties = (entry[1] :> entry[2]) @@ acc.properties]
     ELSE IF field = "event" THEN [acc EXCEPT !.event = entry[2]]
     ELSE [acc EXCEPT !.properties = (field :> entry[2]) @@ acc.properties]

\* lines 427-436, one turn of the loop over Object.entries(row)
JSONMapStep(rowToEventMap, entry, acc) ==
  LET field == MapLookup(rowToEventMap, entry[1])
  IN IF field = "" THEN acc
     ELSE IF field = "event" THEN [acc EXCEPT !.event = entry[2]]
     ELSE [acc EXCEPT !.properties = (field :> entry[2]) @@ acc.properties]

RECURSIVE JSONMapLoop(_, _, _)
JSONMapLoop(rowToEventMap, entries, acc) ==
  IF entries = <<>> THEN acc
  ELSE JSONMapLoop(rowToEventMap, Tail(entries), JSONMapStep(rowToEventMap, Head(entries), acc))

\* lines 410-439
JSONMapTransform(entries, att) ==
  IF ~att.present \/ ~att.valid
  THEN Threw
  ELSE JSONMapLoop(JsonParse(att.members), entries,
                   [result |-> "returned", event |-> "", properties |-> [k \in {} |-> ""]])

PropertyKeys == {"timestamp", "source", "plan"}
PropertyValues == {"pro", "web"}
DefaultRows ==
  [event : {"signup"}, timestamp : {"t1"}, distinct_id : {"u42"},
   properties : JsonText(PropertyKeys, PropertyValues, MaxProperties)]

Columns == {"col_a", "col_b", "col_c"}
ColumnValues == {"signup", "u42", "ignored"}
Fields == {"event", "distinct_id", ""}
\* the entries of a row, in column order; a column occurs once
MapRows ==
  {es \in SeqsUpTo(Columns \X ColumnValues, MaxColumns) :
     \A i, j \in DOMAIN es : es[i][1] = es[j][1] => i = j}
\* attachments.rowToEventMap: not attached, or the text of the document
MapAttachments ==
  {[present |-> TRUE, valid |-> x.valid, members |-> x.members] :
     x \in JsonText(Columns, Fields, MaxMapMembers)}
    \cup {[present |-> FALSE, valid |-> FALSE, members |-> <<>>]}

\* one row is given to the configured transform
TransformInit ==
  /\ PluginInit({[importMechanism |-> CONTINUOUS, batchSize |-> 2, frequency |-> 2,
                  hasRequired |-> TRUE]})
  /\ tableRows = 1
  /\ badRows = {}
  /\ eventToIngest = NoEvent
  /\ query = NoQuery
  /\ \/ /\ transformationName = "default"
        /\ row \in DefaultRows
        /\ attachments = [present |-> FALSE, valid |-> FALSE, members |-> <<>>]
     \/ /\ transformationName = "JSON Map"
        /\ row \in MapRows
        /\ attachments \in MapAttachments

TransformDefault ==
  /\ transformationName = "default"
  /\ eventToIngest = NoEvent
  /\ eventToIngest' = IF row.properties.valid THEN DefaultTransform(row) ELSE Threw
  /\ UNCHANGED <<progVars, histVars, logVars, emittedAgain, transformationName, row, attachments,
                 captured, query>>

TransformJSONMap ==
  /\ transformationName = "JSON Map"
  /\ eventToIngest = NoEvent
  /\ eventToIngest' = JSONMapTransform(row, attachments)
  /\ UNCHANGED <<progVars, histVars, logVars, emittedAgain, transformationName, row, attachments,
                 captured, query>>

TransformNext ==
  \/ TransformDefault
  \/ TransformJSONMap

TransformSpec == TransformInit /\ [][TransformNext]_vars

\* ------------------------------------------------- the pooled connection
\* One plugin start in which two invocations can be run at the same time,
\* and queries fail or succeed.
PoolRunning == MaxRunning + 1

PoolInit ==
  /\ InitWith({[importMechanism |-> CONTINUOUS, batchSize |-> 2, frequency |-> 2,
                hasRequired |-> TRUE]})
  /\ badRows = {}

PoolStartRun == \E inv \in BagToSet(pending) : StartRunWith(inv, PoolRunning)

PoolExecuteFail ==
  \E r \in Runs : ExecuteFailOf(r, ScenarioJobs, MaxRetries) /\ UNCHANGED <<logVars, otherVars>>

PoolNext ==
  \/ SetupRun
  \/ PoolStartRun
  \/ ReadOffset
  \/ Acquire
  \/ PoolExecuteFail
  \/ ExecuteOk
  \/ Incr
  \/ Schedule

PoolSpec == PoolInit /\ [][PoolNext]_vars

\* ------------------------------------------------- the events of a batch
\* queryResponse.queryResult: the rows of the batch, in the order of the query
QueryResult(offset) ==
  [i \in 1..Cardinality(QueryRows(offset)) |-> offset + i - 1]

\* the event the configured transform returns for the row of an index
RowEvent(i) == [event |-> "row", properties |-> ("index" :> i)]

\* mutant: the event is put in front of the list
UnshiftEvent(events, event) == <<event>> \o events

\* line 340: eventsToIngest.push(event)
PushEvent(events, event) == Append(events, event)

\* lines 337-342: the rows are transformed one after the other
RECURSIVE EventsToIngest(_, _)
EventsToIngest(rows, events) ==
  IF rows = <<>> THEN events
  ELSE EventsToIngest(Tail(rows), PushEvent(events, RowEvent(Head(rows))))

\* lines 344-346: posthog.capture of each event of the list
RECURSIVE CaptureLoop(_, _)
CaptureLoop(sink, events) ==
  IF events = <<>> THEN sink
  ELSE CaptureLoop(Append(sink, Head(events)), Tail(events))

IngestInit ==
  InitWith({[importMechanism |-> m, batchSize |-> 2, frequency |-> 2, hasRequired |-> TRUE] :
              m \in {CONTINUOUS, HISTORICAL}})

IngestExecuteOk ==
  \E r \in Runs :
    /\ ExecuteOkOf(r)
    /\ captured' = IF TransformThrows(QueryRows(r.offset))
                   THEN captured
                   ELSE CaptureLoop(captured, EventsToIngest(QueryResult(r.offset), <<>>))
    /\ UNCHANGED <<logVars, emittedAgain, transformVars, query>>

IngestNext ==
  \/ SetupRun
  \/ StartRun
  \/ ReadOffset
  \/ Acquire
  \/ IngestExecuteOk
  \/ Incr
  \/ Schedule
  \/ GrowTable

IngestSpec == IngestInit /\ [][IngestNext]_vars

\* ------------------------------------------- the registry and the sink
\* plugin.json, the choices of transformationName
TransformationChoices ==
  {"default", "JSON Map", "Predefined Fields", "passthrough", "Cleaned-Up Properties"}

\* the keys of the transformations object
Transformations == {"default", "JSON Map", "passthrough", "Cleaned-Up Properties"}

\* the transforms applied here (Cleaned-Up Properties is not)
AppliedTransformations == {"default", "JSON Map", "passthrough"}

\* a value of a row given to the passthrough transform, and row[key] of a
\* column the row does not have
Undefined == [type |-> "undefined", value |-> ""]
PassthroughColumns == {"COMPLETED_AT_ET", "ID"}
PassthroughValues == {[type |-> "Date", value |-> "2021-06-01"], [type |-> "string", value |-> "n/a"]}
PassthroughRows == UNION {[cols -> PassthroughValues] : cols \in SUBSET PassthroughColumns}

\* lines 363-379: date.getTimezoneOffset() and the other Date methods exist
\* on a Date only; on any other value the call is a TypeError.  The text is
\* the date followed by the time and the zone.
FormatDateToIsoString(date) ==
  IF date.type = "Date"
  THEN [threw |-> FALSE, text |-> <<date.value, "T00:00:00", "+00:00">>]
  ELSE [threw |-> TRUE, text |-> <<>>]

\* lines 443-458
PassthroughTransform(r) ==
  LET unformattedTimestamp ==
        IF "COMPLETED_AT_ET" \in DOMAIN r THEN r["COMPLETED_AT_ET"] ELSE Undefined
      timestamp == FormatDateToIsoString(unformattedTimestamp)
  IN IF timestamp.threw
     THEN Threw
     ELSE [result |-> "returned", event |-> "test_event", properties |-> r]

NoAttachment == [present |-> FALSE, valid |-> FALSE, members |-> <<>>]

\* one row is given to the transform the configuration names, and the event
\* it returns is passed to the sink
SinkInit ==
  /\ PluginInit({[importMechanism |-> CONTINUOUS, batchSize |-> 2, frequency |-> 2,
                  hasRequired |-> TRUE]})
  /\ tableRows = 1
  /\ badRows = {}
  /\ eventToIngest = NoEvent
  /\ query = NoQuery
  /\ transformationName \in (TransformationChoices \ Transformations) \cup AppliedTransformations
  /\ \/ /\ transformationName = "default"
        /\ row \in DefaultRows
        /\ attachments = NoAttachment
     \/ /\ transformationName = "JSON Map"
        /\ row \in MapRows
        /\ attachments \in MapAttachments
     \/ /\ transformationName \notin {"default", "JSON Map"}
        /\ row \in PassthroughRows
        /\ attachments = NoAttachment

TransformPassthrough ==
  /\ transformationName = "passthrough"
  /\ eventToIngest = NoEvent
  /\ eventToIngest' = PassthroughTransform(row)
  /\ UNCHANGED <<progVars, histVars, logVars, emittedAgain, transformationName, row, attachments,
                 captured, query>>

\* line 339: transformations[config.transformationName] is undefined, and
\* reading its transform is a TypeError
TransformMissing ==
  /\ transformationName \notin Transformations
  /\ eventToIngest = NoEvent
  /\ eventToIngest' = Threw
  /\ UNCHANGED <<progVars, histVars, logVars, emittedAgain, transformationName, row, attachments,
                 captured, query>>

\* lines 344-346, for the one event of the list
Capture ==
  /\ eventToIngest.result = "returned"
  /\ captured = <<>>
  /\ captured' = CaptureLoop(captured,
                    PushEvent(<<>>, [event |-> eventToIngest.event,
                                     properties |-> eventToIngest.properties]))
  /\ UNCHANGED <<progVars, histVars, logVars, emittedAgain, transformVars, query>>

SinkNext ==
  \/ TransformDefault
  \/ TransformJSONMap
  \/ TransformPassthrough
  \/ TransformMissing
  \/ Capture

SinkSpec == SinkInit /\ [][SinkNext]_vars

\* -------------------------------------------------------- the batch query
\* A text is the sequence of its characters.  \w is [A-Za-z0-9_]: a letter
\* outside ASCII is not matched by it.
WordChars == {"t", "7", "_"}
Chars == WordChars \cup {";", "'", "e-acute"}
Texts == SeqsUpTo(Chars, MaxTextLen)
QueryOffsets == {0, 2}

\* mutant: the quote is kept too
IsWordCharOrQuote(c) == c \in WordChars \cup {"'"}

\* not matched by [^\w\d_]
IsWordChar(c) == c \in WordChars

\* lines 185-187: text.replace(/[^\w\d_]+/g, '')
RECURSIVE SanitizeSql(_)
SanitizeSql(text) ==
  IF text = <<>> THEN <<>>
  ELSE IF IsWordChar(Head(text)) THEN <<Head(text)>> \o SanitizeSql(Tail(text))
  ELSE SanitizeSql(Tail(text))

\* lines 189-191
SanitizeSqlIdentifier(unquotedIdentifier) ==
  <<"identifier('">> \o SanitizeSql(unquotedIdentifier) \o <<"')">>

QueryInit ==
  /\ PluginInit({[importMechanism |-> CONTINUOUS, batchSize |-> 2, frequency |-> 2,
                  hasRequired |-> TRUE]})
  /\ tableRows = 1
  /\ badRows = {}
  /\ transformationName = "default"
  /\ row = <<>>
  /\ attachments = <<>>
  /\ eventToIngest = NoEvent
  /\ query \in [table : Texts, orderBy : Texts, offset : QueryOffsets, built : {FALSE},
                 sqlText : {NoSqlText}, binds : {<<>>}]

\* lines 309-316: the text of the query and its bound values
BuildQuery ==
  /\ ~query.built
  /\ query' = [query EXCEPT
                 !.built = TRUE,
                 !.sqlText = [from |-> SanitizeSqlIdentifier(query.table),
                              orderBy |-> SanitizeSql(query.orderBy),
                              limit |-> config.batchSize,
                              offset |-> ":1"],
                 !.binds = <<query.offset>>]
  /\ UNCHANGED <<progVars, histVars, logVars, emittedAgain, transformVars, captured>>

QueryNext == BuildQuery

QuerySpec == QueryInit /\ [][QueryNext]_vars

\* ------------------------------------------------- the historical import
\* HISTORICAL mode with batches of one row; no query and no transform fails.
\* The table grows until the first setup only, the plugin is torn down
\* between two runs and set up again any number of times, and a scheduled
\* invocation is eventually run, as is every step of a run.
HistoricalInit ==
  /\ InitWith({[importMechanism |-> HISTORICAL, batchSize |-> 1, frequency |-> 2,
                hasRequired |-> TRUE]})
  /\ badRows = {}

HistoricalTeardownPersist ==
  /\ running = EmptyBag
  /\ TeardownPersist

HistoricalGrowTable ==
  /\ storage.total_rows_snapshot = Absent
  /\ GrowTable

HistoricalNext ==
  \/ SetupRun
  \/ HistoricalTeardownPersist
  \/ TeardownClear
  \/ StartRun
  \/ ReadOffset
  \/ Acquire
  \/ ExecuteOk
  \/ Incr
  \/ Schedule
  \/ HistoricalGrowTable

HistoricalSpec ==
  /\ HistoricalInit
  /\ [][HistoricalNext]_vars
  /\ WF_vars(StartRun)
  /\ WF_vars(ReadOffset)
  /\ WF_vars(Acquire)
  /\ WF_vars(ExecuteOk)
  /\ WF_vars(Incr)
  /\ WF_vars(Schedule)

\* ------------------------------------------------ stopping without teardown
\* The process stops without teardownPlugin: the runs in progress are gone,
\* the job queue, the cache and the durable store stay as they are.  Every
\* query succeeds and every transform returns; batches are of one row.
CrashInit ==
  /\ InitWith({[importMechanism |-> m, batchSize |-> 1, frequency |-> 2, hasRequired |-> TRUE] :
                 m \in {CONTINUOUS, HISTORICAL}})
  /\ badRows = {}

Crash ==
  /\ phase = "up"
  /\ phase' = "down"
  /\ running' = EmptyBag
  /\ UNCHANGED <<config, tableRows, badRows, storage, cache, global, pending,
                 histVars, logVars, otherVars>>

CrashExecuteOk ==
  \E r \in Runs :
    /\ ExecuteOkOf(r)
    /\ emittedAgain' = emittedAgain \cup (QueryRows(r.offset) \cap emittedRows)
    /\ UNCHANGED <<logVars, transformVars, captured, query>>

CrashNext ==
  \/ SetupRun
  \/ Crash
  \/ StartRun
  \/ ReadOffset
  \/ Acquire
  \/ CrashExecuteOk
  \/ Incr
  \/ Schedule
  \/ GrowTable

CrashSpec == CrashInit /\ [][CrashNext]_vars

\* ----------------------------------------------------------------- claims
\* the step in which run r gets the rows of its query
FetchSucceeds(r) ==
  /\ BagIn(r, running)
  /\ r.pc = "execute"
  /\ lastSucc' = r.offset
  /\ \/ running' = running (-) One(r)
     \/ running' = (running (-) One(r)) (+) One([r EXCEPT !.pc = "incr"])

\* the step in which the query of run r fails
FetchFails(r) ==
  /\ BagIn(r, running)
  /\ r.pc \in {"acquire", "execute"}
  /\ running' = (running (-) One(r)) (+) One([r EXCEPT !.pc = "incr", !.scheduled = r.scheduled + 1])

\* the step in which run r ends
RunEnds(r) ==
  /\ BagIn(r, running)
  /\ running' = running (-) One(r)

\* the step in which run r has computed its offset
OffsetKnown(r) ==
  /\ BagIn(r, running)
  /\ r.pc = "offset"
  /\ CopiesIn(r, running') < CopiesIn(r, running)

Scheduled == BagCardinality(pending') - BagCardinality(pending)

\* C1: since the last setup, a successful fetch is at the offset of the
\* successful fetch before it plus batchSize (no gap, no overlap).
C1_ConsecutiveOffsets ==
  [][\A r \in Runs :
       (FetchSucceeds(r) /\ lastSucc # Absent) => r.offset = lastSucc + config.batchSize]_vars

\* C2: a run that ends after its offset check (successful fetch, failed
\* fetch or failed transform) has scheduled exactly one invocation.
C2_ExactlyOneSuccessor ==
  [][\A r \in Runs :
       (RunEnds(r) /\ r.pc # "offset") => r.scheduled + Scheduled = 1]_vars

\* C3: an invocation with retriesPerformedSoFar >= 15 is abandoned: it is
\* never run up to its fetch, and when it is taken from the queue the counter
\* has not advanced past the offset of the batch that failed.
C3_AbandonedAfter15 ==
  \A r \in Runs :
    r.payload.retriesPerformedSoFar >= 15 =>
      /\ r.pc \notin {"acquire", "execute", "incr", "sched"}
      /\ EffectiveOffset =< firstFailOffset

\* C4: a failed fetch of a run with retriesPerformedSoFar = n, n in 0..14,
\* schedules one invocation with delay 3 * 2^n seconds and the payload of the
\* run with retriesPerformedSoFar = n + 1.
C4_RetryDelay ==
  [][\A r \in Runs :
       (FetchFails(r) /\ r.payload.retriesPerformedSoFar \in 0..14) =>
         LET n == r.payload.retriesPerformedSoFar
         IN pending' = pending (+)
              One([payload |-> [r.payload EXCEPT !.retriesPerformedSoFar = n + 1],
                   delay |-> 3 * (2 ^ n)])]_vars

\* the fifteenth retry has been scheduled, 3 * 2^14 seconds ahead
C4_Witness ==
  \E inv \in BagToSet(pending) :
    inv.payload.retriesPerformedSoFar = 15 /\ inv.delay = 49152

\* C5: when the first two fetch attempts fail and the third succeeds, the
\* retries scheduled are two, 3 then 6 seconds ahead, and every invocation
\* scheduled at the polling interval carries retriesPerformedSoFar = 0.
C5_FailTwiceThenSucceed ==
  fetchLog = <<"fail", "fail", "ok">> =>
    /\ retryDelays = <<3, 6>>
    /\ \A inv \in BagToSet(pending) :
         inv.delay = config.frequency => inv.payload.retriesPerformedSoFar = 0

\* C6: in HISTORICAL mode a run whose offset is above totalRows ends there
\* (no fetch, no event, the counter and the queue as they were), and once a
\* run has seen that, no run enters its fetch until the next setup.
C6_HistoricalTermination ==
  [][/\ \A r \in Runs :
          (OffsetKnown(r) /\ config.importMechanism = HISTORICAL
             /\ EffectiveOffset > global.totalRows) =>
            /\ running' = running (-) One(r)
            /\ pending' = pending
            /\ cache' = cache
            /\ emittedRows' = emittedRows
            /\ terminatedSeen'
     /\ (terminatedSeen /\ terminatedSeen') =>
          \A x \in BagToSet(running') : x.pc = "acquire" => CopiesIn(x, running') =< CopiesIn(x, running)]_vars

\* a run has ended on offset > totalRows and another invocation is being run
C6_Witness ==
  /\ config.importMechanism = HISTORICAL
  /\ terminatedSeen
  /\ \E r \in Runs : r.pc = "offset" /\ EffectiveOffset > global.totalRows

\* C7: in HISTORICAL mode every emitted row has an index below the snapshot.
C7_NoRowBeyondSnapshot ==
  config.importMechanism = HISTORICAL =>
    \A i \in emittedRows :
      storage.total_rows_snapshot # Absent /\ i < storage.total_rows_snapshot

\* C8: in HISTORICAL mode the durable snapshot, once written, is not changed
\* by any later step (whatever the row count, also when it was written as 0).
C8_SnapshotWrittenOnce ==
  [][(config.importMechanism = HISTORICAL /\ storage.total_rows_snapshot # Absent) =>
       storage'.total_rows_snapshot = storage.total_rows_snapshot]_vars

\* C9: after a teardown that persisted O, the setup leaves
\* initialOffset + counter * batchSize = O.
C9_ResumeAtPersisted ==
  [][(persisted # Absent /\ phase = "down" /\ phase' = "up") =>
       global'.initialOffset + GetOr(cache', 0) = persisted]_vars

\* C10: setup loads into global.initialOffset the value teardown wrote last
\* to the durable key import_offset, 0 when teardown never wrote.
C10_CheckpointRoundTrip ==
  [][SetupRun => global'.initialOffset = (IF persisted = Absent THEN 0 ELSE persisted)]_vars

\* a setup has loaded a checkpoint other than 0
C10_Witness ==
  /\ phase = "up"
  /\ persisted > 0
  /\ global.initialOffset = persisted

\* C11: when the process stopped without teardown and setup ran again, the
\* rows emitted a second time lie within one batch, and the restart does not
\* resume beyond the batch that follows the last fetched one (no row skipped).
C11_CrashReprocessesOneBatch ==
  [][/\ \E o \in 0..MaxRows : emittedAgain' \subseteq o..(o + config.batchSize - 1)
     /\ (phase = "down" /\ phase' = "up" /\ lastSucc # Absent) =>
          global'.initialOffset + GetOr(cache', 0) =< lastSucc + config.batchSize]_vars

\* C12: a setup that fails (a required option is missing, the COUNT query
\* fails, or the frequency is not a number other than 0) schedules no
\* invocation and starts none.
C12_FailedSetupSchedulesNothing ==
  [][(SetupMissingOption \/ SetupCountFails \/ (SetupRun /\ config.frequency = 0)) =>
       (pending' = pending /\ running' = running /\ phase' = "down")]_vars

\* a setup has failed on the frequency, after it set global.totalRows
C12_Witness ==
  /\ config.frequency = 0
  /\ global.totalRows # Absent
  /\ phase = "down"
  /\ pending = EmptyBag

\* C13: when the transform of a row of the fetched batch throws, the run ends
\* there: no row of the batch is emitted, the counter is not incremented and
\* no invocation is scheduled.
C13_TransformFailureIsFatal ==
  [][\A r \in Runs :
       (FetchSucceeds(r) /\ QueryRows(r.offset) \cap badRows # {}) =>
         /\ running' = running (-) One(r)
         /\ emittedRows' = emittedRows
         /\ cache' = cache
         /\ pending' = pending]_vars

\* the only run fetched at offset 0 and ended on a transform that threw:
\* the counter is still 0 and nothing is scheduled
C13_Witness ==
  /\ phase = "up"
  /\ lastSucc = 0
  /\ cache = 0
  /\ badRows \cap QueryRows(0) # {}
  /\ emittedRows = {}
  /\ pending = EmptyBag
  /\ running = EmptyBag

\* C14: the Default transform returns the event name row.event and the
\* properties {timestamp, distinct_id} of the row overlaid by the members of
\* the parsed properties, with source "snowflake_import" whatever they hold.
C14_DefaultTransform ==
  (transformationName = "default" /\ row.properties.valid /\ eventToIngest # NoEvent) =>
    LET ms == row.properties.members
        keys == {ms[i][1] : i \in DOMAIN ms}
        props == eventToIngest.properties
    IN /\ eventToIngest.result = "returned"
       /\ eventToIngest.event = row.event
       /\ DOMAIN props = {"timestamp", "distinct_id", "source"} \cup keys
       /\ props["source"] = "snowflake_import"
       /\ props["distinct_id"] = row.distinct_id
       /\ "timestamp" \notin keys => props["timestamp"] = row.timestamp
       /\ \A k \in keys \ {"source"} :
            \E i \in DOMAIN ms :
              /\ ms[i] = <<k, props[k]>>
              /\ \A j \in DOMAIN ms : ms[j][1] = k => j =< i

\* the properties text held a source and a timestamp of its own
C14_Witness ==
  /\ transformationName = "default"
  /\ eventToIngest.result = "returned"
  /\ \E i, j \in DOMAIN row.properties.members :
       /\ row.properties.members[i] = <<"source", "web">>
       /\ row.properties.members[j] = <<"timestamp", "pro">>
  /\ eventToIngest.properties["source"] = "snowflake_import"
  /\ eventToIngest.properties["timestamp"] = "pro"

\* the field the mapping document gives to a column, "" when it gives none
C15_FieldOf(colName) ==
  LET ms == attachments.members
  IN IF \E i \in DOMAIN ms : ms[i][1] = colName
     THEN JsonParse(ms)[colName]
     ELSE ""

\* C15, as stated: the JSON Map transform returns the value of the column
\* mapped to "event" as the event name, and properties with exactly one entry
\* per row column mapped to another field, under that field and with the
\* column's value; the other columns give nothing.
C15_JSONMapOneEntryPerColumn ==
  (transformationName = "JSON Map" /\ eventToIngest.result = "returned") =>
    LET props == eventToIngest.properties
        mapped == {i \in DOMAIN row : C15_FieldOf(row[i][1]) \notin {"", "event"}}
    IN /\ \A i \in DOMAIN row :
            C15_FieldOf(row[i][1]) = "event" => eventToIngest.event = row[i][2]
       /\ \A i \in mapped :
            /\ C15_FieldOf(row[i][1]) \in DOMAIN props
            /\ props[C15_FieldOf(row[i][1])] = row[i][2]
       /\ Cardinality(DOMAIN props) = Cardinality(mapped)

\* C15, amended: the event name is the value of the last row column mapped
\* to "event" ("" when there is none), and the properties have one entry per
\* field other than "event" that a row column is mapped to, with the value of
\* the last row column mapped to it; the other columns give nothing.
C15_JSONMapLastColumnWins ==
  (transformationName = "JSON Map" /\ eventToIngest.result = "returned") =>
    LET props == eventToIngest.properties
        ColumnsOf(f) == {i \in DOMAIN row : C15_FieldOf(row[i][1]) = f}
        Last(f) == CHOOSE i \in ColumnsOf(f) : \A j \in ColumnsOf(f) : j =< i
    IN /\ eventToIngest.event =
            (IF ColumnsOf("event") = {} THEN "" ELSE row[Last("event")][2])
       /\ DOMAIN props = {C15_FieldOf(row[i][1]) : i \in DOMAIN row} \ {"", "event"}
       /\ \A f \in DOMAIN props : props[f] = row[Last(f)][2]

\* the mapping {"col_a": "event", "col_b": "distinct_id"} applied to the row
\* {col_a: "signup", col_b: "u42", col_c: "ignored"}
C15_Witness ==
  /\ transformationName = "JSON Map"
  /\ row = << <<"col_a", "signup">>, <<"col_b", "u42">>, <<"col_c", "ignored">> >>
  /\ attachments.members = << <<"col_a", "event">>, <<"col_b", "distinct_id">> >>
  /\ eventToIngest.result = "returned"
  /\ eventToIngest.event = "signup"
  /\ DOMAIN eventToIngest.properties = {"distinct_id"}
  /\ eventToIngest.properties["distinct_id"] = "u42"

\* C16: a retry fetches at the offset of the failed fetch it retries: in a
\* chain of failures every run with retriesPerformedSoFar >= 1 has the offset
\* of the first failed fetch of the chain.
C16_RetryKeepsOffset ==
  \A r \in Runs :
    (r.payload.retriesPerformedSoFar >= 1 /\ r.pc \in {"acquire", "execute"}) =>
      r.offset = firstFailOffset

\* C17: the step after the failed fetch of a run leaves the counter as it
\* was (a run at "incr" that has scheduled its retry is one whose fetch failed).
C17_FailedFetchKeepsCounter ==
  [][\A r \in Runs :
       (r.pc = "incr" /\ r.scheduled = 1 /\ CopiesIn(r, running') < CopiesIn(r, running)) =>
         GetOr(cache', 0) = GetOr(cache, 0)]_vars

\* C18: the offsets of successive fetches never decrease: a fetch is not
\* below the fetch before it, and the offset a setup leaves for the first
\* batch is not below the last fetch before the teardown.
C18_OffsetsNeverDecrease ==
  [][/\ \A r \in Runs :
          (FetchSucceeds(r) /\ lastSucc # Absent) => r.offset >= lastSucc
     /\ (phase = "down" /\ phase' = "up" /\ lastSucc # Absent) =>
          global'.initialOffset + GetOr(cache', 0) >= lastSucc]_vars

\* C19: teardown persists min(workerOffset, snapshot) in HISTORICAL mode and
\* the worker's offset as it is in CONTINUOUS mode.
C19_CapOnlyHistorical ==
  [][(phase = "up" /\ phase' = "draining") =>
       LET workerOffset == GetOr(cache, 0)
       IN storage'.import_offset =
            (IF config.importMechanism = HISTORICAL
             THEN (IF workerOffset < storage.total_rows_snapshot
                   THEN workerOffset ELSE storage.total_rows_snapshot)
             ELSE workerOffset)]_vars

\* C20: when teardown persists while a run has emitted the rows of its batch
\* and not yet incremented the counter, the persisted offset is the one it
\* would be with that increment done.
C20_TeardownCountsBatchInFlight ==
  [][(phase = "up" /\ phase' = "draining") =>
       \A r \in Runs :
         (r.pc = "incr" /\ r.scheduled = 0 /\ QueryRows(r.offset) \cap emittedRows # {}) =>
           LET workerOffset == GetOr(cache, 0) + config.batchSize
           IN storage'.import_offset =
                (IF workerOffset > global.totalRows THEN global.totalRows ELSE workerOffset)]_vars

\* C21: the pool is drained and cleared only by a teardown whose durable
\* write has completed (the durable key holds the value that teardown
\* computed), and a teardown whose write fails leaves the pool as it is.
C21_WriteBeforeRelease ==
  [][/\ (phase # "down" /\ phase' = "down") =>
          /\ phase = "draining"
          /\ persisted # Absent
          /\ storage.import_offset = persisted
     /\ TeardownWriteFails => phase' = "up"]_vars

\* a teardown has written the checkpoint and then released the pool
C21_Witness ==
  /\ phase = "down"
  /\ persisted # Absent
  /\ storage.import_offset = persisted

\* the number of runs whose query is being executed
C22_Executing(bag) ==
  BagCardinality([r \in {x \in BagToSet(bag) : x.pc = "execute"} |-> CopiesIn(r, bag)])

\* C22: at most one query is being executed at any time; a run gets the
\* connection only when no query is being executed, and the step that ends
\* a query, failed or not, leaves no query being executed.
C22_OneQueryAtATime ==
  [][/\ C22_Executing(running') =< 1
     /\ \A r \in Runs :
          (r.pc = "acquire" /\ BagIn([r EXCEPT !.pc = "execute"], running')
             /\ ~BagIn([r EXCEPT !.pc = "execute"], running)) =>
            C22_Executing(running) = 0
     /\ \A r \in Runs :
          (r.pc = "execute" /\ CopiesIn(r, running') < CopiesIn(r, running)) =>
            C22_Executing(running') = 0]_vars

\* one run executes its query while another one waits for the connection
C22_Witness ==
  \E r, w \in Runs :
    /\ r.pc = "execute"
    /\ w.pc = "acquire"
    /\ w.payload.retriesPerformedSoFar = 1

\* C23: when the fetch of a run succeeds and no transform throws, the events
\* passed to the sink in that step are the events of the fetched rows, one
\* per row and in row order, and the counter is as it was; the counter
\* changes only in the later step of a run that is past its emission.
C23_EventsInRowOrder ==
  [][/\ \A r \in Runs :
          (FetchSucceeds(r) /\ QueryRows(r.offset) \cap badRows = {}) =>
            LET n == Cardinality(QueryRows(r.offset))
            IN /\ Len(captured') = Len(captured) + n
               /\ \A i \in 1..n :
                    captured'[Len(captured) + i] = RowEvent(r.offset + i - 1)
               /\ \A i \in 1..Len(captured) : captured'[i] = captured[i]
               /\ cache' = cache
     /\ (phase = "up" /\ phase' = "up" /\ cache' # cache) =>
          /\ captured' = captured
          /\ \E r \in Runs : r.pc = "incr" /\ CopiesIn(r, running') < CopiesIn(r, running)]_vars

\* a batch of two rows has been emitted, row 0 then row 1, and counted
C23_Witness ==
  /\ captured = <<RowEvent(0), RowEvent(1)>>
  /\ cache = 2

\* C24: no event with an empty event name is passed to the sink.
C24_NoEmptyEventName ==
  \A i \in DOMAIN captured : captured[i].event # ""

\* C25: no transform fails for lack of a strategy: the name the
\* configuration allows is a key of the registry.
C25_ChoicesAreRegistered ==
  (transformationName \in TransformationChoices /\ eventToIngest = Threw) =>
    transformationName \in Transformations

\* C26: the passthrough transform returns, for every row, the fixed event
\* name with the row as properties.
C26_PassthroughNeverFails ==
  (transformationName = "passthrough" /\ eventToIngest # NoEvent) =>
    /\ eventToIngest.result = "returned"
    /\ eventToIngest.event = "test_event"
    /\ eventToIngest.properties = row

\* C27: the identifiers in the text of the batch query have letters, digits
\* and underscores only, and are the configured table and orderBy with every
\* other character removed, in order; the offset is not in the text, which
\* has the placeholder :1, and is the one bound value.
C27_SanitizedIdentifiers ==
  query.built =>
    LET Kept(text) == SelectSeq(text, LAMBDA c : c \in {"t", "7", "_"})
        from == query.sqlText.from
    IN /\ query.sqlText.orderBy = Kept(query.orderBy)
       /\ Len(from) = Len(Kept(query.table)) + 2
       /\ from[1] = "identifier('"
       /\ from[Len(from)] = "')"
       /\ SubSeq(from, 2, Len(from) - 1) = Kept(query.table)
       /\ \A i \in 2..(Len(from) - 1) : from[i] \in {"t", "7", "_"}
       /\ query.sqlText.offset = ":1"
       /\ query.binds = <<query.offset>>

\* a query was built for a table text with a quote and a semicolon in it
C27_Witness ==
  /\ query.built
  /\ query.table = <<"'", ";">>
  /\ query.orderBy = <<"t", "e-acute">>
  /\ query.sqlText.from = <<"identifier('", "')">>
  /\ query.sqlText.orderBy = <<"t">>
  /\ query.binds = <<2>>

\* the runner is terminated: a run has seen offset > totalRows, and no
\* invocation is scheduled or being run
C28_Terminated ==
  /\ phase = "up"
  /\ terminatedSeen
  /\ pending = EmptyBag
  /\ running = EmptyBag

\* C28: in HISTORICAL mode with no failure, when the plugin stays set up
\* the runner eventually is terminated with nothing scheduled, and whenever
\* it is, every row below the snapshot has been emitted.
C28_HistoricalCompletes ==
  /\ [](C28_Terminated =>
          \A i \in 0..(storage.total_rows_snapshot - 1) : i \in emittedRows)
  /\ (<>[](phase = "up")) => <>C28_Terminated

====
